---- MODULE Spec2Model ----
(***************************************************************************)
(* FileWalker (the file search engine of the workbench): walk / cancel,    *)
(* the portable recursive walk (recurseWithNodeJS), the native walk        *)
(* (recurseWithNativeCommand) and the fan-out join they complete through.  *)
(* Paths are sequences of path segments; "/p/src/foo" is <<"p","src","foo">>.*)
(*                                                                         *)
(* The JavaScript/TypeScript language mode (getJavaScriptMode) with its    *)
(* language service host (getLanguageServiceHost), and the conversions of  *)
(* the mode (convertRange, the symbol collection of findDocumentSymbols)    *)
(* and its format operation.                                               *)
(*                                                                         *)
(* WorkspaceTrustRequestHandler, TerminalWidgetManager and listProcesses.  *)
(*                                                                         *)
(* Each component has its own variables and its own specification; a       *)
(* specification leaves the variables of the other components at rest.    *)
(***************************************************************************)
EXTENDS Integers, Sequences, FiniteSets, Bags, TLC

VARIABLES
    config,          \* IRawSearch handed to the constructor
    rootPaths,       \* argument of walk()
    pc,              \* "constructed" | "walking" | "done"
    isCanceled, isLimitHit, resultCount, walkedPaths, runningNative,
    tasks,           \* pending asynchronous file system calls
    joins,           \* the flow.parallel invocations in progress
    procs,           \* the spawned native child processes
    results,         \* bag of the paths handed to onResult
    doneCalls,       \* sequence of the (error, isLimitHit) pairs handed to done
    readFailed,      \* history: a directory read failed with an error other than ENOTDIR
    traversals       \* history: bag of the real directories recursed into

\* the language mode
VARIABLES
    docVersion,      \* version of the editor's document
    jsDocuments,     \* the embedded-document cache of the mode
    derivations,     \* history: number of calls of the cache's derivation function
    lastGets,        \* history: the last two jsDocuments.get calls
    cacheEvents,     \* history: version change / removal since the last get
    host,            \* getLanguageServiceHost: the promise, currentTextDocument
    engine,          \* the language service: what it has read, dispose calls
    queue,           \* continuations waiting for the jsLanguageService promise
    calls,           \* the operations of the mode called so far, in call order
    item,            \* the completion item handed to doResolve
    disposes         \* number of dispose() calls on the mode

\* the conversions
VARIABLES
    text,            \* text of a document snapshot
    span,            \* engine text span handed to convertRange
    range,           \* the range convertRange returned
    items,           \* navigation bar items of the engine
    symbols          \* what findDocumentSymbols returned

\* the further components
VARIABLES
    formatting,      \* format: document, range, the engine's edits, the edits returned
    trust,           \* WorkspaceTrustRequestHandler and the requests it was handed
    widgets,         \* TerminalWidgetManager: container, _attached, the handles returned
    listing          \* listProcesses: the lines still to be read, map, rootItem

walkerVars == <<config, rootPaths, pc, isCanceled, isLimitHit, resultCount,
                walkedPaths, runningNative, tasks, joins, procs, results, doneCalls,
                readFailed, traversals>>

modeVars == <<docVersion, jsDocuments, derivations, lastGets, cacheEvents, host,
              engine, queue, calls, item, disposes>>

convertVars == <<text, span, range, items, symbols>>

restVars == <<formatting, trust, widgets, listing>>

vars == <<walkerVars, modeVars, convertVars, restVars>>

\* no further component is in use
RestIdle == formatting = <<>> /\ trust = <<>> /\ widgets = <<>> /\ listing = <<>>

\* no language mode has been created
ModeIdle ==
    /\ docVersion = 0 /\ jsDocuments = <<>> /\ derivations = 0 /\ lastGets = <<>>
    /\ cacheEvents = <<>> /\ host = <<>> /\ engine = <<>> /\ queue = <<>>
    /\ calls = <<>> /\ item = <<>> /\ disposes = 0

\* no conversion is being made
ConvertIdle ==
    /\ text = <<>> /\ span = <<>> /\ range = <<>> /\ items = <<>> /\ symbols = <<>>

\* no FileWalker has been constructed
WalkerIdle ==
    /\ config = <<>> /\ rootPaths = <<>> /\ pc = "none" /\ isCanceled = FALSE
    /\ isLimitHit = FALSE /\ resultCount = 0 /\ walkedPaths = {} /\ runningNative = 0
    /\ tasks = {} /\ joins = <<>> /\ procs = <<>> /\ results = <<>>
    /\ doneCalls = <<>> /\ readFailed = FALSE /\ traversals = <<>>

(* ---------------------------------------------------------------- bounds *)

\* largest maxResults a configuration is drawn with (0 is "no limit")
MaxResultsBound == 2
\* cap on the number of recurseWithNodeJS calls of one walk
MaxRecursions == 4
\* the longest root path a walk is started with
MaxRootLen == 3

(* ----------------------------------------------------------- file system *)

NoError == "null"
ENOTDIR == "ENOTDIR"
EACCES == "EACCES"
ENOENT == "ENOENT"

\* readdir returns names in this order
NameOrder == <<"bar", "c", "d", "e", "f", "foo", "g", "h", "lnk", "nm", "p", "src", "sub", "up", "x">>

\*  /p/src/foo  /p/src/bar  /p/nm/foo
\*  /c/src/foo  /c/lnk -> /c
\*  /e/foo      /e/x (unreadable)
\*  /d/foo      /d/sub/up -> /d
\*  /f (a file)
\*  /g/foo      /g/h/foo (lstat of /g/h fails)
Layout1 ==
    [dirs   |-> {<<>>, <<"p">>, <<"p","src">>, <<"p","nm">>,
                 <<"c">>, <<"c","src">>, <<"e">>, <<"e","x">>,
                 <<"d">>, <<"d","sub">>, <<"g">>, <<"g","h">>},
     files  |-> {<<"p","src","foo">>, <<"p","src","bar">>, <<"p","nm","foo">>,
                 <<"c","src","foo">>, <<"d","foo">>, <<"e","foo">>, <<"f">>,
                 <<"g","foo">>, <<"g","h","foo">>},
     links  |-> {[from |-> <<"c","lnk">>, to |-> <<"c">>],
                 [from |-> <<"d","sub","up">>, to |-> <<"d">>]},
     noread |-> {<<"e","x">>},
     nolstat |-> {<<"g","h">>}]

\* the file system the walk runs on; no step of the walk changes it
fsys == Layout1

Front(s) == SubSeq(s, 1, Len(s) - 1)
Last(s) == s[Len(s)]

IsLink(fs, real) == \E l \in fs.links : l.from = real
LinkTarget(fs, real) == (CHOOSE l \in fs.links : l.from = real).to

\* the real path a textual path names, every symbolic link followed
RECURSIVE Resolve(_, _)
Resolve(fs, path) ==
    IF path = <<>> THEN <<>>
    ELSE LET c == Append(Resolve(fs, Front(path)), Last(path))
         IN IF IsLink(fs, c) THEN LinkTarget(fs, c) ELSE c

IsDir(fs, path) == Resolve(fs, path) \in fs.dirs
IsFile(fs, path) == Resolve(fs, path) \in fs.files

ChildNames(fs, real) ==
    SelectSeq(NameOrder, LAMBDA n :
        LET c == Append(real, n)
        IN c \in fs.dirs \/ c \in fs.files \/ IsLink(fs, c))

\* extfs.readdir(path): [error, files]
readdir(fs, path) ==
    LET r == Resolve(fs, path)
    IN IF r \in fs.noread THEN [error |-> EACCES, files |-> <<>>]
       ELSE IF r \in fs.dirs THEN [error |-> NoError, files |-> ChildNames(fs, r)]
       ELSE IF r \in fs.files THEN [error |-> ENOTDIR, files |-> <<>>]
       ELSE [error |-> ENOENT, files |-> <<>>]

\* a directory read that failed, and not because the path is a file
failedRead(rd) == rd.error # NoError /\ rd.error # ENOTDIR

\* fs.stat(path) of the file pattern checks: !error && !stat.isDirectory()
statIsFile(fs, path) == IsFile(fs, path)

\* fs.lstat(path).isSymbolicLink()
lstatIsSymbolicLink(fs, path) ==
    path # <<>> /\ IsLink(fs, Append(Resolve(fs, Front(path)), Last(path)))

\* fs.lstat(path) fails
lstatFails(fs, path) == Resolve(fs, path) \in fs.nolstat

\* fs.realpath(path)
realpath(fs, path) == Resolve(fs, path)

\* what `find <root> -type f -follow` prints: every file below root, links
\* followed, a directory that is its own ancestor not entered again
RECURSIVE FindFiles(_, _, _), FindList(_, _, _, _)
FindFiles(fs, path, above) ==
    LET r == Resolve(fs, path)
    IN IF r \in fs.files THEN <<path>>
       ELSE IF r \in fs.dirs /\ r \notin above /\ r \notin fs.noread
            THEN FindList(fs, path, ChildNames(fs, r), above \cup {r})
            ELSE <<>>
FindList(fs, path, names, above) ==
    IF names = <<>> THEN <<>>
    ELSE FindFiles(fs, Append(path, Head(names)), above)
         \o FindList(fs, path, Tail(names), above)

FindOutput(fs, root) == FindFiles(fs, root, {})

\* the paths that name something, up to the longest path a walk can ask for
RECURSIVE PathsUpTo(_)
PathsUpTo(n) ==
    IF n = 0 THEN {<<>>}
    ELSE LET shorter == PathsUpTo(n - 1)
         IN shorter \cup
            {Append(p, NameOrder[i]) : p \in {q \in shorter : Len(q) = n - 1 /\ IsDir(fsys, q)},
                                      i \in 1..Len(NameOrder)}

TextPaths == {p \in PathsUpTo(MaxRecursions + MaxRootLen) : IsDir(fsys, p) \/ IsFile(fsys, p)}

\* the answers of the file system, tabulated once
ReaddirOf == [p \in TextPaths |-> readdir(fsys, p)]
IsSymbolicLinkOf == [p \in TextPaths |-> lstatIsSymbolicLink(fsys, p)]
LstatFailsOf == [p \in TextPaths |-> lstatFails(fsys, p)]
RealpathOf == [p \in TextPaths |-> realpath(fsys, p)]
FindOutputOf == [p \in {q \in TextPaths : Len(q) <= MaxRootLen} |-> FindOutput(fsys, p)]

(* ------------------------------------------------- patterns and matching *)

NoPattern == [abs |-> FALSE, segs |-> <<>>]
Rel(segs) == [abs |-> FALSE, segs |-> segs]
Abs(segs) == [abs |-> TRUE, segs |-> segs]

\* glob.match(expression, path, siblings): an expression is the set of the
\* names X of its "**/X/**" patterns; it matches a path with a segment X
globMatch(expression, path) ==
    /\ path # <<>>
    /\ \E i \in 1..Len(path) : path[i] \in expression

\* filters.matchesFuzzy(word, wordToMatchAgainst): word occurs in the target
matchesFuzzy(word, target) ==
    \E i \in 1..(Len(target.segs) - Len(word.segs) + 1) :
        /\ SubSeq(target.segs, i, i + Len(word.segs) - 1) = word.segs
        /\ word.abs => (i > 1 \/ target.abs)

\* constructor: this.filePattern, this.searchInPath, this.maxResults
filePattern == config.filePattern
hasFilePattern == filePattern.segs # <<>>
searchInPath == hasFilePattern /\ (filePattern.abs \/ Len(filePattern.segs) > 1)
maxResults == config.maxResults

isFilePatternMatch(name, path) ==
    IF hasFilePattern
    THEN matchesFuzzy(filePattern,
                      IF config.matchFuzzy \/ searchInPath THEN path ELSE Rel(<<name>>))
    ELSE TRUE

includeMatch(path) ==
    ~config.hasInclude \/ globMatch(config.includePattern, path)

\* limitExceeded, off by one
limitExceededLate(count) == maxResults # 0 /\ count > maxResults + 1

\* this.maxResults && this.resultCount > this.maxResults
limitExceeded(count) == maxResults # 0 /\ count > maxResults

\* resultCount++, the limit check and the guarded onResult, on a record
\* [resultCount, isLimitHit, results]
reportMatch(st, path) ==
    LET n == st.resultCount + 1
        hit == st.isLimitHit \/ limitExceeded(n)
    IN [resultCount |-> n,
        isLimitHit |-> hit,
        results |-> IF hit THEN st.results ELSE st.results (+) SetToBag({path})]

(* ----------------------------------------------------------- flow.parallel *)

TopJoin == <<0, <<>>>>

\* no flow.parallel invocation in progress
NoJoins == [j \in {} |-> 0]

newJoin(n, parent, parentIdx) ==
    [len |-> n, doneCount |-> 0, errors |-> [i \in 1..n |-> NoError],
     didErrorOccur |-> FALSE, parent |-> parent, parentIdx |-> parentIdx]

\* what a step leaves behind: the joins, the new pending calls, the errors
\* done was called with, the roots a child process is spawned for, the
\* directories recurseWithNodeJS was entered for
Outcome(js, ts, dn, sp, tr) ==
    [joins |-> js, tasks |-> ts, done |-> dn, spawn |-> sp, trav |-> tr]

\* walk's join callback: done(err ? err[0] : null, this.isLimitHit)
walkDoneError(didErrorOccur, errors) ==
    IF didErrorOccur THEN errors[1] ELSE NoError

\* recurseWithNodeJS's join callback: arrays.coalesce(error)[0] or null
recurseDoneError(didErrorOccur, errors) ==
    LET found == SelectSeq(errors, LAMBDA e : e # NoError)
    IN IF didErrorOccur /\ found # <<>> THEN found[1] ELSE NoError

\* a join after the callback of its item idx was called with err
joinAfter(j, idx, err) ==
    [j EXCEPT !.errors[idx] = err,
              !.didErrorOccur = @ \/ err # NoError,
              !.doneCount = @ + 1]

\* the callback flow.parallel hands to fn, called for item idx of join jid:
\* when it is the last one the join's own callback runs (the join j2 is
\* bound once, as a value)
RECURSIVE parallelCallback(_, _, _, _)
parallelCallback(js, jid, idx, err) ==
    CHOOSE o \in
        {IF j2.doneCount = j2.len
         THEN IF jid = TopJoin
              THEN Outcome([js EXCEPT ![jid] = j2], {},
                           <<walkDoneError(j2.didErrorOccur, j2.errors)>>, {}, {})
              ELSE parallelCallback([js EXCEPT ![jid] = j2], j2.parent, j2.parentIdx,
                                    recurseDoneError(j2.didErrorOccur, j2.errors))
         ELSE Outcome([js EXCEPT ![jid] = j2], {}, <<>>, {}, {})
           : j2 \in {joinAfter(js[jid], idx, err)}} : TRUE

(* -------------------------------------------------------- the portable walk *)

Task(kind, root, path, rel, idx) ==
    [kind |-> kind, root |-> root, path |-> path, rel |-> rel, idx |-> idx]

\* skipsFile without the exclude check
skipsFileNoExclude(rel) == isCanceled \/ isLimitHit

\* the checks a file passes before its directory read is issued
skipsFile(rel) ==
    \/ isCanceled \/ isLimitHit
    \/ globMatch(config.excludePattern, rel)

\* recurseWithNodeJS with the return after the exclude check left out: clb
\* is called for an excluded file and its directory is read all the same
recurseWithNodeJSNoReturn(js, root, absolutePath, rel, files, parent, parentIdx) ==
    LET jid == <<root, absolutePath>>
        sync == {i \in 1..Len(files) : skipsFile(Append(rel, files[i]))}
        j == [newJoin(Len(files), parent, parentIdx)
                 EXCEPT !.doneCount = Cardinality(sync)]
        new == {Task("readdir", root, Append(absolutePath, files[i]),
                     Append(rel, files[i]), i) :
                    i \in {k \in 1..Len(files) : ~(isCanceled \/ isLimitHit)}}
        trav == {RealpathOf[absolutePath]}
        js1 == (jid :> j) @@ js
    IN IF Cardinality(sync) = Len(files)
       THEN [parallelCallback(js1, parent, parentIdx, NoError)
                EXCEPT !.trav = trav, !.tasks = new]
       ELSE Outcome(js1, new, <<>>, {}, trav)

\* flow.parallel(files, ...) of recurseWithNodeJS: a file that is skipped
\* calls clb at once, for every other file a directory read is issued
recurseWithNodeJS(js, root, absolutePath, rel, files, parent, parentIdx) ==
    LET jid == <<root, absolutePath>>
        sync == {i \in 1..Len(files) : skipsFile(Append(rel, files[i]))}
        j == [newJoin(Len(files), parent, parentIdx)
                 EXCEPT !.doneCount = Cardinality(sync)]
        new == {Task("readdir", root, Append(absolutePath, files[i]),
                     Append(rel, files[i]), i) : i \in (1..Len(files)) \ sync}
        trav == {RealpathOf[absolutePath]}
        js1 == (jid :> j) @@ js
    IN IF Cardinality(sync) = Len(files)
       THEN [parallelCallback(js1, parent, parentIdx, NoError) EXCEPT !.trav = trav]
       ELSE Outcome(js1, new, <<>>, {}, trav)

\* this.recurse(absolutePath, files, onResult, perEntryCallback) for a root
recurse(js, root, files) ==
    IF config.disableFastFileLookup
    THEN recurseWithNodeJS(js, root, rootPaths[root], <<>>, files, TopJoin, root)
    ELSE Outcome(js, {}, <<>>, {root}, {})

\* flow.parallel(rootPaths, ...) of walk
walkRoots(js) ==
    IF rootPaths = <<>>
    THEN Outcome(js, {}, <<NoError>>, {}, {})
    ELSE Outcome((TopJoin :> newJoin(Len(rootPaths), TopJoin, 0)) @@ js,
                 {Task("rootReaddir", i, rootPaths[i], <<>>, i) : i \in 1..Len(rootPaths)},
                 <<>>, {}, {})

(* ------------------------------------------------------ the native walk *)

terminateNative(ps, running) ==
    IF running # 0 THEN [ps EXCEPT ![running].killed = TRUE] ELSE ps

spawnAll(ps, roots) ==
    IF roots = {} THEN ps
    ELSE Append(ps, [root |-> CHOOSE r \in roots : TRUE, pos |-> 0,
                     killed |-> FALSE, closed |-> FALSE, seen |-> <<>>])

toRelativeWithSlash(root, path) == SubSeq(path, Len(rootPaths[root]) + 1, Len(path))

\* Object.keys(mapFoldersToFilepaths): the parents in order of first appearance
RECURSIVE foldersOf(_, _)
foldersOf(seen, acc) ==
    IF seen = <<>> THEN acc
    ELSE LET d == Front(Head(seen))
         IN foldersOf(Tail(seen),
                      IF \E i \in 1..Len(acc) : acc[i] = d THEN acc ELSE Append(acc, d))

\* the filter on the folders: the folder and each of its parents up to the root
folderKept(root, folder) ==
    LET rel == toRelativeWithSlash(root, folder)
    IN ~\E k \in 1..Len(rel) : globMatch(config.excludePattern, SubSeq(rel, 1, k))

RECURSIVE childrenOfFolders(_, _)
childrenOfFolders(seen, folders) ==
    IF folders = <<>> THEN <<>>
    ELSE SelectSeq(seen, LAMBDA p : Front(p) = Head(folders))
         \o childrenOfFolders(seen, Tail(folders))

\* the forEach over the kept paths of the close handler
RECURSIVE forEachPath(_, _, _)
forEachPath(st, root, ps) ==
    IF ps = <<>> THEN st
    ELSE LET p == Head(ps)
             rel == toRelativeWithSlash(root, p)
             st2 == IF st.isLimitHit THEN st
                    ELSE IF globMatch(config.excludePattern, rel) THEN st
                    ELSE IF isFilePatternMatch(Last(p), Rel(rel)) /\ includeMatch(rel)
                         THEN reportMatch(st, p)
                         ELSE st
         IN forEachPath(st2, root, Tail(ps))

closeHandlerPaths(root, seen) ==
    childrenOfFolders(seen,
        SelectSeq(foldersOf(seen, <<>>), LAMBDA d : folderKept(root, d)))

(* --------------------------------------------------------------- actions *)

P == <<"p">>
C == <<"c">>
F == <<"f">>
E == <<"e">>
EX == <<"e", "x">>
D == <<"d">>
DSub == <<"d", "sub">>
PSrcFoo == <<"p", "src", "foo">>
CSrcFoo == <<"c", "src", "foo">>
G == <<"g">>

RootChoices == {<<>>, <<P>>, <<C>>, <<D>>, <<DSub>>, <<E>>, <<F>>, <<P, F>>, <<EX, P>>,
                <<P, PSrcFoo, CSrcFoo>>, <<E, G>>, <<G>>}

PatternChoices == {NoPattern, Rel(<<"foo">>), Rel(<<"src", "foo">>),
                   Abs(<<"p", "src", "foo">>), Abs(<<"f">>)}

Init ==
    /\ rootPaths \in RootChoices
    /\ config \in [filePattern : PatternChoices,
                   matchFuzzy : {FALSE},
                   disableFastFileLookup : BOOLEAN,
                   excludePattern : {{}, {"nm"}, {"src"}},
                   hasInclude : {FALSE},
                   includePattern : {{}},
                   maxResults : 0..MaxResultsBound]
    /\ pc = "constructed"
    /\ isCanceled = FALSE
    /\ isLimitHit = FALSE
    /\ resultCount = 0
    /\ walkedPaths = {}
    /\ runningNative = 0
    /\ tasks = {}
    /\ joins = NoJoins
    /\ procs = <<>>
    /\ results = EmptyBag
    /\ doneCalls = <<>>
    /\ readFailed = FALSE
    /\ traversals = EmptyBag
    /\ ModeIdle /\ ConvertIdle /\ RestIdle

counters == [resultCount |-> resultCount, isLimitHit |-> isLimitHit, results |-> results]

onResult(st, path) == [st EXCEPT !.results = st.results (+) SetToBag({path})]

\* the assignments of one callback turn: the consumed pending calls, the
\* counters it leaves, the outcome of the calls it made; doneCalls and
\* traversals record the walk in progress and start empty with each walk
TurnOf(consumed, st, out, ps, running) ==
    /\ resultCount' = st.resultCount
    /\ isLimitHit' = st.isLimitHit
    /\ results' = st.results
    /\ joins' = out.joins
    /\ tasks' = (tasks \ consumed) \cup out.tasks
    /\ doneCalls' = (IF pc = "walking" THEN doneCalls ELSE <<>>) \o [i \in 1..Len(out.done) |->
                                    [error |-> out.done[i], isLimitHit |-> st.isLimitHit]]
    /\ pc' = IF out.done # <<>> THEN "done" ELSE "walking"
    /\ procs' = spawnAll(ps, out.spawn)
    /\ runningNative' = IF out.spawn # {} THEN Len(ps) + 1 ELSE running
    /\ traversals' = (IF pc = "walking" THEN traversals ELSE EmptyBag) (+) SetToBag(out.trav)
    /\ UNCHANGED <<config, rootPaths, modeVars, convertVars, restVars>>

\* TurnOf with the counters and the outcome computed once
Turn(consumed, st, out, ps, running) ==
    \E s \in {st} : \E o \in {out} : TurnOf(consumed, s, o, ps, running)

\* checkFilePatternAbsoluteMatch issues fs.stat(this.filePattern)
statsAbsolutePattern ==
    /\ hasFilePattern /\ filePattern.abs
    /\ ~\E i \in 1..Len(rootPaths) : rootPaths[i] = filePattern.segs

\* walk(rootPaths, onResult, done) up to its first asynchronous call, on a
\* new FileWalker or on one whose previous walk has called done (the child
\* processes of that walk have closed); results, like doneCalls, records
\* the onResult calls of the walk in progress
Walk ==
    /\ pc \in {"constructed", "done"}
    /\ walkedPaths' = {}
    /\ isCanceled' = isCanceled
    /\ LET st == [resultCount |-> 0, isLimitHit |-> FALSE, results |-> EmptyBag]
           ps == SelectSeq(terminateNative(procs, runningNative), LAMBDA p : ~p.closed)
       IN IF statsAbsolutePattern
          THEN Turn({}, st, Outcome(NoJoins, {Task("absStat", 0, filePattern.segs, <<>>, 0)},
                                    <<>>, {}, {}), ps, 0)
          ELSE Turn({}, st, walkRoots(NoJoins), ps, 0)
    /\ readFailed' = FALSE

\* cancel()
Cancel ==
    /\ pc = "walking"
    /\ ~isCanceled \/ runningNative # 0
    /\ isCanceled' = TRUE
    /\ procs' = terminateNative(procs, runningNative)
    /\ runningNative' = 0
    /\ UNCHANGED <<config, rootPaths, pc, isLimitHit, resultCount, walkedPaths,
                   tasks, joins, results, doneCalls, readFailed, traversals,
                   modeVars, convertVars, restVars>>

\* callback of fs.stat(this.filePattern)
AbsStatCallback(t) ==
    /\ t \in tasks /\ t.kind = "absStat"
    /\ LET exists == statIsFile(fsys, t.path)
           st == IF exists THEN onResult(counters, t.path) ELSE counters
       IN Turn({t}, st, walkRoots(joins), procs, runningNative)
    /\ UNCHANGED <<isCanceled, walkedPaths, readFailed>>

\* checkFilePatternRelativeMatch issues fs.stat(join(basePath, filePattern))
statsRelativePattern == hasFilePattern /\ ~filePattern.abs /\ searchInPath

\* the root is a file: exclude, file pattern and include checks, then count
rootFileResult(st, absolutePath) ==
    IF globMatch(config.excludePattern, absolutePath) THEN st
    ELSE IF isFilePatternMatch(Last(absolutePath), Abs(absolutePath))
            /\ includeMatch(absolutePath)
         THEN reportMatch(st, absolutePath)
         ELSE st

\* callback of extfs.readdir(absolutePath) for a root path
RootReaddirCallback(t) ==
    /\ t \in tasks /\ t.kind = "rootReaddir"
    /\ LET rd == ReaddirOf[t.path]
           unwind == parallelCallback(joins, TopJoin, t.root, NoError)
       IN IF isCanceled \/ isLimitHit
          THEN Turn({t}, counters, unwind, procs, runningNative)
          ELSE IF rd.error = NoError
          THEN IF statsRelativePattern
               THEN Turn({t}, counters,
                         Outcome(joins, {Task("relStat", t.root, t.path, <<>>, t.root)},
                                 <<>>, {}, {}), procs, runningNative)
               ELSE Turn({t}, counters, recurse(joins, t.root, rd.files),
                         procs, runningNative)
          ELSE IF rd.error = ENOTDIR
          THEN Turn({t}, rootFileResult(counters, t.path), unwind, procs, runningNative)
          ELSE Turn({t}, counters, unwind, procs, runningNative)
    /\ readFailed' = (readFailed \/ failedRead(ReaddirOf[t.path]))
    /\ UNCHANGED <<isCanceled, walkedPaths>>

\* callback of fs.stat(join(basePath, filePattern)) for a root path
RelStatCallback(t) ==
    /\ t \in tasks /\ t.kind = "relStat"
    /\ LET match == t.path \o filePattern.segs
           st == IF statIsFile(fsys, match) THEN onResult(counters, match) ELSE counters
       IN Turn({t}, st, recurse(joins, t.root, ReaddirOf[t.path].files),
               procs, runningNative)
    /\ UNCHANGED <<isCanceled, walkedPaths, readFailed>>

\* a callback turn that returns without calling clb
clbDropped(t, err) == Outcome(joins, {}, <<>>, {}, {})

\* clb of the file a pending call belongs to
clb(t, err) == parallelCallback(joins, <<t.root, Front(t.path)>>, t.idx, err)

\* the file branch of the directory read: pattern and include checks, then count
fileResult(st, t) ==
    IF isFilePatternMatch(Last(t.path), Rel(t.rel)) /\ includeMatch(t.rel)
    THEN reportMatch(st, t.path)
    ELSE st

\* callback of extfs.readdir(currentPath) in recurseWithNodeJS
ReaddirCallback(t) ==
    /\ t \in tasks /\ t.kind = "readdir"
    /\ LET rd == ReaddirOf[t.path]
       IN IF rd.error = NoError
          THEN Turn({t}, counters,
                    Outcome(joins, {[t EXCEPT !.kind = "lstat"]}, <<>>, {}, {}),
                    procs, runningNative)
          ELSE IF rd.error = ENOTDIR /\ ~isCanceled /\ ~isLimitHit
          THEN Turn({t}, fileResult(counters, t), clb(t, NoError), procs, runningNative)
          ELSE Turn({t}, counters, clb(t, NoError), procs, runningNative)
    /\ readFailed' = (readFailed \/ failedRead(ReaddirOf[t.path]))
    /\ UNCHANGED <<isCanceled, walkedPaths>>

\* isWalked with the walked paths never consulted
isWalkedNever(walked, real) == FALSE

\* this.walkedPaths[realpath]
isWalked(walked, real) == real \in walked

\* callback of realPathLink: skip a walked directory, else mark it and recurse
continueWalking(t, real) ==
    IF isWalked(walkedPaths, real)
    THEN /\ Turn({t}, counters, clb(t, NoError), procs, runningNative)
         /\ walkedPaths' = walkedPaths
    ELSE /\ BagCardinality(traversals) < MaxRecursions
         /\ Turn({t}, counters,
                 recurseWithNodeJS(joins, t.root, t.path, t.rel,
                                   ReaddirOf[t.path].files,
                                   <<t.root, Front(t.path)>>, t.idx),
                 procs, runningNative)
         /\ walkedPaths' = walkedPaths \cup {real}

\* the callback of fs.lstat with a failure handed on to clb as an error
LstatCallbackRaising(t) ==
    /\ t \in tasks /\ t.kind = "lstat"
    /\ IF LstatFailsOf[t.path]
       THEN /\ Turn({t}, counters, clb(t, EACCES), procs, runningNative)
            /\ walkedPaths' = walkedPaths
       ELSE IF IsSymbolicLinkOf[t.path]
       THEN /\ Turn({t}, counters,
                    Outcome(joins, {[t EXCEPT !.kind = "realpath"]}, <<>>, {}, {}),
                    procs, runningNative)
            /\ walkedPaths' = walkedPaths
       ELSE continueWalking(t, t.path)
    /\ UNCHANGED <<isCanceled, readFailed>>

\* callback of fs.lstat(path) in realPathLink
LstatCallback(t) ==
    /\ t \in tasks /\ t.kind = "lstat"
    /\ IF LstatFailsOf[t.path]
       THEN /\ Turn({t}, counters, clb(t, NoError), procs, runningNative)
            /\ walkedPaths' = walkedPaths
       ELSE IF IsSymbolicLinkOf[t.path]
       THEN /\ Turn({t}, counters,
                    Outcome(joins, {[t EXCEPT !.kind = "realpath"]}, <<>>, {}, {}),
                    procs, runningNative)
            /\ walkedPaths' = walkedPaths
       ELSE continueWalking(t, t.path)
    /\ UNCHANGED <<isCanceled, readFailed>>

\* callback of fs.realpath(path) in realPathLink
RealpathCallback(t) ==
    /\ t \in tasks /\ t.kind = "realpath"
    /\ continueWalking(t, RealpathOf[t.path])
    /\ UNCHANGED <<isCanceled, readFailed>>

\* cmd.stdout.on('data'): the next line of the child's output
NativeData(i) ==
    /\ i \in 1..Len(procs)
    /\ ~procs[i].closed
    /\ LET out == FindOutputOf[rootPaths[procs[i].root]]
       IN /\ procs[i].pos < Len(out)
          /\ procs' = [procs EXCEPT ![i].pos = @ + 1,
                                    ![i].seen = IF isCanceled THEN @
                                                ELSE Append(@, out[procs[i].pos + 1])]
    /\ UNCHANGED <<config, rootPaths, pc, isCanceled, isLimitHit, resultCount,
                   walkedPaths, runningNative, tasks, joins, results, doneCalls,
                   readFailed, traversals, modeVars, convertVars, restVars>>

\* cmd.on('close')
NativeClose(i) ==
    /\ i \in 1..Len(procs)
    /\ ~procs[i].closed
    /\ procs[i].killed \/ procs[i].pos = Len(FindOutputOf[rootPaths[procs[i].root]])
    /\ LET root == procs[i].root
           st == IF isCanceled THEN counters
                 ELSE forEachPath(counters, root, closeHandlerPaths(root, procs[i].seen))
       IN Turn({}, st, parallelCallback(joins, TopJoin, root, NoError),
               [procs EXCEPT ![i].closed = TRUE], 0)
    /\ UNCHANGED <<isCanceled, walkedPaths, readFailed>>

Next ==
    \/ Walk
    \/ Cancel
    \/ \E t \in tasks : AbsStatCallback(t)
    \/ \E t \in tasks : RootReaddirCallback(t)
    \/ \E t \in tasks : RelStatCallback(t)
    \/ \E t \in tasks : ReaddirCallback(t)
    \/ \E t \in tasks : LstatCallback(t)
    \/ \E t \in tasks : RealpathCallback(t)
    \/ \E i \in 1..Len(procs) : NativeData(i)
    \/ \E i \in 1..Len(procs) : NativeClose(i)

Spec == Init /\ [][Next]_vars

\* every step but cancel(): the calls and events the platform delivers
Delivered ==
    \/ Walk
    \/ \E t \in tasks : AbsStatCallback(t)
    \/ \E t \in tasks : RootReaddirCallback(t)
    \/ \E t \in tasks : RelStatCallback(t)
    \/ \E t \in tasks : ReaddirCallback(t)
    \/ \E t \in tasks : LstatCallback(t)
    \/ \E t \in tasks : RealpathCallback(t)
    \/ \E i \in 1..Len(procs) : NativeData(i)
    \/ \E i \in 1..Len(procs) : NativeClose(i)

\* every pending callback and every child process event is delivered
FairSpec == Spec /\ WF_vars(Delivered)

\* the walks with disableFastFileLookup set: no child process is spawned
InitPortable == Init /\ config.disableFastFileLookup

NextPortable ==
    \/ Walk
    \/ Cancel
    \/ \E t \in tasks : AbsStatCallback(t)
    \/ \E t \in tasks : RootReaddirCallback(t)
    \/ \E t \in tasks : RelStatCallback(t)
    \/ \E t \in tasks : ReaddirCallback(t)
    \/ \E t \in tasks : LstatCallback(t)
    \/ \E t \in tasks : RealpathCallback(t)

DeliveredPortable ==
    \/ Walk
    \/ \E t \in tasks : AbsStatCallback(t)
    \/ \E t \in tasks : RootReaddirCallback(t)
    \/ \E t \in tasks : RelStatCallback(t)
    \/ \E t \in tasks : ReaddirCallback(t)
    \/ \E t \in tasks : LstatCallback(t)
    \/ \E t \in tasks : RealpathCallback(t)

\* the portable walk, every pending file system callback delivered
PortableSpec == InitPortable /\ [][NextPortable]_vars /\ WF_vars(DeliveredPortable)

(* ---------------------------------------------------------------- claims *)

delivered == BagCardinality(results)
doneInvoked == doneCalls # <<>>

\* C1: with maxResults = M the number of onResult calls of a walk never
\* exceeds M, the file-pattern matches reported directly included
C1_ResultsWithinMax == maxResults > 0 => delivered <= maxResults

\* C2: done is invoked at most once per walk, and only when every root path
\* has been processed to its end: no file system call is pending, every
\* spawned child process has closed and every fan-out has joined
C2_DoneOnceAfterAllRoots ==
    /\ Len(doneCalls) <= 1
    /\ doneInvoked => /\ tasks = {}
                      /\ \A i \in 1..Len(procs) : procs[i].closed
                      /\ \A j \in DOMAIN joins : joins[j].doneCount = joins[j].len

\* done was invoked for a walk over two or more roots
C2_Witness == doneInvoked /\ Len(rootPaths) >= 2 /\ Len(procs) + BagCardinality(traversals) >= 1

\* C3: once cancel() has been called, onResult is not invoked again
C3_NoResultAfterCancel == [][(pc = "walking" /\ isCanceled) => results' = results]_vars

\* C4: once isLimitHit is set, onResult is not invoked again in that walk
C4_NoResultAfterLimit == [][(pc = "walking" /\ isLimitHit) => results' = results]_vars

\* C5: within one walk no path is handed to onResult twice (stated for a walk
\* over a single root path, where no two roots can name the same file)
C5_NoDuplicateResult ==
    Len(rootPaths) = 1 => \A p \in BagToSet(results) : CopiesIn(p, results) = 1

\* C6: on a directory structure with symbolic-link cycles the portable walk
\* terminates: once started it reaches its done callback
C6_PortableWalkTerminates == <>(pc = "done")

\* a portable walk has finished after following a link back into a
\* directory it had entered before
C6_Witness ==
    /\ pc = "done" /\ config.disableFastFileLookup
    /\ \E d \in BagToSet(traversals) : CopiesIn(d, traversals) >= 2

\* C7: during one portable walk (of a single root) each distinct real
\* directory is traversed at most once, the root directory included
C7_EachRealDirectoryOnce ==
    (config.disableFastFileLookup /\ Len(rootPaths) = 1)
        => \A d \in BagToSet(traversals) : CopiesIn(d, traversals) <= 1

IsPrefix(a, b) == Len(a) <= Len(b) /\ SubSeq(b, 1, Len(a)) = a

\* the scenario of C8: one root directory with no link and no unreadable
\* directory below it, a basename file pattern, an exclude pattern that
\* matches one of its directories
C8_Scenario ==
    /\ Len(rootPaths) = 1
    /\ rootPaths[1] \in fsys.dirs
    /\ \A l \in fsys.links : ~IsPrefix(rootPaths[1], l.from)
    /\ \A d \in fsys.noread : ~IsPrefix(rootPaths[1], d)
    /\ hasFilePattern /\ ~filePattern.abs /\ Len(filePattern.segs) = 1
    /\ \E d \in fsys.dirs : IsPrefix(rootPaths[1], d) /\ d # rootPaths[1]
                            /\ Last(d) \in config.excludePattern

C8_Below(path) == SubSeq(path, Len(rootPaths[1]) + 1, Len(path))

\* the files below the root that match the pattern outside excluded directories
C8_Expected ==
    {f \in fsys.files :
        /\ IsPrefix(rootPaths[1], f)
        /\ <<Last(f)>> = filePattern.segs
        /\ \A i \in 1..Len(C8_Below(f)) : C8_Below(f)[i] \notin config.excludePattern}

\* C8: on both strategies no file under an excluded directory is delivered,
\* and a walk that ran to its end without limit or cancellation delivered
\* every matching file outside the excluded directories exactly once
C8_ExcludedDirectoriesSkipped ==
    C8_Scenario =>
        /\ \A p \in BagToSet(results) :
              \A i \in 1..Len(C8_Below(p)) : C8_Below(p)[i] \notin config.excludePattern
        /\ (pc = "done" /\ ~isCanceled /\ maxResults = 0)
              => results = SetToBag(C8_Expected)

C8_WitnessPortable ==
    /\ C8_Scenario /\ pc = "done" /\ ~isCanceled /\ maxResults = 0
    /\ config.disableFastFileLookup /\ delivered >= 1

C8_WitnessNative ==
    /\ C8_Scenario /\ pc = "done" /\ ~isCanceled /\ maxResults = 0
    /\ ~config.disableFastFileLookup /\ delivered >= 1

\* C9 as stated: once M results have been delivered, done receives
\* isLimitHit = true
C9_LimitHitOnceMaxDelivered ==
    (doneInvoked /\ maxResults > 0 /\ delivered >= maxResults)
        => doneCalls[1].isLimitHit

\* C9 as amended: once more than M matches have been counted, done receives
\* isLimitHit = true
C9_LimitHitOnceMaxExceeded ==
    (doneInvoked /\ maxResults > 0 /\ resultCount > maxResults)
        => doneCalls[1].isLimitHit

C9_Witness == doneInvoked /\ maxResults > 0 /\ resultCount > maxResults

\* C10: when a directory read fails with an error other than ENOTDIR, done
\* receives a non-null error, and every root is still processed to its end
C10_ReadErrorReachesDone ==
    (doneInvoked /\ readFailed /\ ~isCanceled)
        => /\ doneCalls[1].error # NoError
           /\ tasks = {}
           /\ \A i \in 1..Len(procs) : procs[i].closed

\* the child processes of the walk that were spawned, not killed and not closed
liveChildren == {i \in 1..Len(procs) : ~procs[i].closed /\ ~procs[i].killed}

\* C11: on the native strategy at most one child process of a walk is alive
\* at any moment, also with several root paths
C11_OneLiveChild == Cardinality(liveChildren) <= 1

\* C12: after cancel() every child process the walk spawned has been sent
\* kill (or has closed), whether it was spawned before or after the call
C12_NoChildOutlivesCancel == isCanceled => liveChildren = {}

\* C13: every walk() call starts from freshly reset per-search state
C13_WalkStartsFresh ==
    [][pc # "walking" =>
          (resultCount' = 0 /\ ~isLimitHit' /\ ~isCanceled' /\ walkedPaths' = {})]_vars

\* the forms under which walk matches a path against its patterns: relative
\* to the root it lies below, absolute for a root path and for the absolute
\* file pattern
matchForms(path) ==
    {Abs(path)} \cup
    {Rel(SubSeq(path, Len(rootPaths[i]) + 1, Len(path))) :
        i \in {k \in 1..Len(rootPaths) : IsPrefix(rootPaths[k], path) /\ rootPaths[k] # path}}

passesFilters(path) ==
    \E form \in matchForms(path) :
        /\ ~globMatch(config.excludePattern, form.segs)
        /\ isFilePatternMatch(Last(path), form)
        /\ includeMatch(form.segs)

\* C22: every path handed to onResult has passed the exclude pattern, the
\* file pattern and the include pattern, the direct file-pattern matches
\* (absolute and root-relative) included
C22_ResultsPassFilters == \A p \in BagToSet(results) : passesFilters(p)

\* C23: every walk() call eventually invokes done, also when cancel() is
\* called during the walk or the result limit is hit, every pending file
\* system callback and every close event of a child process being delivered
C23_WalkReachesDone == (pc = "walking") ~> (pc = "done")

\* done was invoked by a walk that was cancelled while a child process ran
C23_WitnessCancel ==
    /\ pc = "done" /\ isCanceled
    /\ \E i \in 1..Len(procs) : procs[i].killed /\ procs[i].closed

\* the walk hands no file-pattern match to onResult uncounted
noDirectMatch == ~statsAbsolutePattern /\ ~statsRelativePattern

\* C24: the isLimitHit handed to done is true exactly when more than
\* maxResults files were counted (passed the filters on a counted path); then
\* exactly maxResults of them were delivered; with exactly maxResults files
\* counted it is false
C24_LimitHitIffExceeded ==
    (doneInvoked /\ maxResults > 0) =>
        /\ doneCalls[1].isLimitHit <=> (resultCount > maxResults)
        /\ (doneCalls[1].isLimitHit /\ noDirectMatch) => delivered = maxResults
        /\ (resultCount = maxResults) => ~doneCalls[1].isLimitHit

\* done was handed isLimitHit = true after maxResults counted deliveries
C24_Witness ==
    /\ doneInvoked /\ maxResults > 0 /\ doneCalls[1].isLimitHit
    /\ noDirectMatch /\ delivered = maxResults /\ ~isCanceled

\* the files next to directory d that the walk of root i is to deliver
siblingMatches(d, i) ==
    {f \in fsys.files :
        /\ Front(f) = Front(d) /\ IsPrefix(rootPaths[i], Front(d))
        /\ LET rel == SubSeq(f, Len(rootPaths[i]) + 1, Len(f))
           IN /\ ~globMatch(config.excludePattern, rel)
              /\ isFilePatternMatch(Last(f), Rel(rel))
              /\ includeMatch(rel)}

MaxCalls == 3
\* highest version the editor's document reaches
MaxVersion == 3
\* number of dispose() calls made on one mode
MaxDisposes == 2

\* an embedded document: the version of the document it was derived from and
\* the way it was derived (getEmbeddedDocument(languageId) for the cache of
\* the mode, getEmbeddedDocument('javascript', true) for format)
EmbeddedDocument(version, flavor) == [version |-> version, flavor |-> flavor]

NoDocument == EmbeddedDocument(0, "none")

\* TextDocument.create('init', 'javascript', 1, '')
InitDocument == EmbeddedDocument(1, "init")

NoModel == [doc |-> NoDocument, serial |-> 0]

\* the cache without an entry for the document
NoEntry == [present |-> FALSE, version |-> 0, model |-> NoModel]

Operations == {"doComplete", "doResolve", "format"}

\* the derivation function always answering with the first version's document
deriveStale(version) == EmbeddedDocument(1, "mode")

\* document => documentRegions.get(document).getEmbeddedDocument(languageId)
derive(version) == EmbeddedDocument(version, "mode")

\* LanguageModelCache.get(document): the entry is reused when its version is
\* the document's, else the derived document is computed anew and kept
cacheGet(cache, version, serial) ==
    IF cache.present /\ cache.version = version
    THEN [cache |-> cache, model |-> cache.model, recomputed |-> FALSE]
    ELSE LET m == [doc |-> derive(version), serial |-> serial]
         IN [cache |-> [present |-> TRUE, version |-> version, model |-> m],
             model |-> m, recomputed |-> TRUE]

\* getScriptVersion answering '1' for every file
getScriptVersionStatic(h) == 1

\* host.getScriptVersion(fileName) for the current document
getScriptVersion(h) == h.currentTextDocument.version

\* host.getScriptSnapshot(fileName) for the current document
getScriptSnapshot(h) == h.currentTextDocument

\* the language service before a query: the file is read again when the
\* host reports another version than the one read
synchronizeHostData(e, h) ==
    IF e.version # getScriptVersion(h)
    THEN [e EXCEPT !.version = getScriptVersion(h), !.snapshot = getScriptSnapshot(h)]
    ELSE e

\* getLanguageService importing the library on every call
getLanguageServiceReload(h, jsDocument) ==
    [h EXCEPT !.currentTextDocument = jsDocument, !.loads = @ + 1]

\* host.getLanguageService(jsDocument, workspace): the caller is handed the
\* one jsLanguageService promise
getLanguageService(h, jsDocument) ==
    [h EXCEPT !.currentTextDocument = jsDocument]

\* getJavaScriptMode(...) has returned: getLanguageServiceHost has issued the
\* import of the library, nothing is cached
ModeInit ==
    /\ docVersion = 1
    /\ jsDocuments = NoEntry
    /\ derivations = 0
    /\ lastGets = <<>>
    /\ cacheEvents = [changed |-> FALSE, evicted |-> FALSE]
    /\ host = [promise |-> "pending", loads |-> 1, created |-> 0,
               currentTextDocument |-> InitDocument]
    /\ engine = [version |-> 0, snapshot |-> NoDocument, disposeCalls |-> 0]
    /\ queue = <<>>
    /\ calls = <<>>
    /\ item = [exists |-> FALSE, data |-> FALSE, detail |-> FALSE]
    /\ disposes = 0
    /\ WalkerIdle /\ ConvertIdle /\ RestIdle

\* a request or notification is taken up only when no continuation is ready
\* to run: continuations of a settled promise run before the next event
eventLoopFree == host.promise = "pending" \/ queue = <<>>

\* the last two gets, the new one last
rememberGet(gets, g) == IF gets = <<>> THEN <<g>> ELSE <<gets[Len(gets)], g>>

\* a call that has reached its await: its document, whether the call before
\* it was still waiting (rapid); filled in when it continues: the service it
\* was handed, the snapshot the engine answered from, whether a later call
\* had been made by then (overtaken)
newCall(op, jsDocument) ==
    [op |-> op, stage |-> "awaiting", jsDocument |-> jsDocument,
     rapid |-> (calls # <<>> /\ calls[Len(calls)].stage = "awaiting"),
     service |-> 0, against |-> NoDocument, overtaken |-> FALSE]

\* an operation up to `await host.getLanguageService(jsDocument, workspace)`
\* that takes its document from the cache of the mode
StartCached(op) ==
    /\ op # "format"
    /\ op = "doResolve" => item.exists
    /\ \E got \in {cacheGet(jsDocuments, docVersion, derivations + 1)} :
          /\ jsDocuments' = got.cache
          /\ derivations' = IF got.recomputed THEN derivations + 1 ELSE derivations
          /\ lastGets' = rememberGet(lastGets,
                            [version |-> docVersion, model |-> got.model,
                             recomputed |-> got.recomputed,
                             changed |-> cacheEvents.changed,
                             evicted |-> cacheEvents.evicted])
          /\ cacheEvents' = [changed |-> FALSE, evicted |-> FALSE]
          /\ host' = getLanguageService(host, got.model.doc)
          /\ calls' = Append(calls, newCall(op, got.model.doc))

\* format up to its await: the document is taken from documentRegions
StartFormat(op) ==
    /\ op = "format"
    /\ \E jsDocument \in {EmbeddedDocument(docVersion, "format")} :
          /\ host' = getLanguageService(host, jsDocument)
          /\ calls' = Append(calls, newCall(op, jsDocument))
    /\ UNCHANGED <<jsDocuments, derivations, lastGets, cacheEvents>>

\* doComplete / doResolve / format is called
StartCall(op) ==
    /\ eventLoopFree
    /\ Len(calls) < MaxCalls
    /\ disposes = 0
    /\ StartCached(op) \/ StartFormat(op)
    /\ queue' = Append(queue, <<"call", Len(calls) + 1>>)
    /\ UNCHANGED <<docVersion, engine, item, disposes, walkerVars, convertVars, restVars>>

\* the import of the library resolves: ts.createLanguageService(host)
LoadCompletes ==
    /\ host.promise = "pending"
    /\ host' = [host EXCEPT !.promise = "fulfilled", !.created = @ + 1]
    /\ UNCHANGED <<docVersion, jsDocuments, derivations, lastGets, cacheEvents,
                   engine, queue, calls, item, disposes, walkerVars, convertVars, restVars>>

\* the continuation at the head of the queue runs once the promise is settled
runs(kind, c) ==
    /\ host.promise = "fulfilled"
    /\ queue # <<>>
    /\ Head(queue) = <<kind, c>>
    /\ queue' = Tail(queue)

\* the call c has been handed the language service and has returned
finished(c, stage, against) ==
    [calls EXCEPT ![c] = [@ EXCEPT !.stage = stage, !.service = host.created,
                                   !.against = against,
                                   !.overtaken = (c < Len(calls))]]

\* format after its await: getFormattingEditsForRange
ContinueFormat(c) ==
    /\ runs("call", c) /\ calls[c].op = "format"
    /\ \E e \in {synchronizeHostData(engine, host)} :
          /\ engine' = e
          /\ calls' = finished(c, "done", e.snapshot)
    /\ UNCHANGED <<docVersion, jsDocuments, derivations, lastGets, cacheEvents,
                   host, item, disposes, walkerVars, convertVars, restVars>>

\* doComplete after its await: getCompletionsAtPosition; an entry becomes a
\* completion item that carries data
ContinueComplete(c) ==
    /\ runs("call", c) /\ calls[c].op = "doComplete"
    /\ \E e \in {synchronizeHostData(engine, host)} :
          /\ engine' = e
          /\ calls' = finished(c, "done", e.snapshot)
    /\ \E completions \in BOOLEAN :
          item' = IF completions
                  THEN [exists |-> TRUE, data |-> TRUE, detail |-> FALSE]
                  ELSE item
    /\ UNCHANGED <<docVersion, jsDocuments, derivations, lastGets, cacheEvents,
                   host, disposes, walkerVars, convertVars, restVars>>

\* doResolve after its await: item.data.offset is read (a TypeError when the
\* item has no data), then getCompletionEntryDetails; details fill the item
\* and delete its data
ContinueResolve(c) ==
    /\ runs("call", c) /\ calls[c].op = "doResolve"
    /\ IF ~item.data
       THEN /\ calls' = finished(c, "failed", NoDocument)
            /\ UNCHANGED <<engine, item>>
       ELSE /\ \E e \in {synchronizeHostData(engine, host)} :
                  /\ engine' = e
                  /\ calls' = finished(c, "done", e.snapshot)
            /\ \E details \in BOOLEAN :
                  item' = IF details
                          THEN [item EXCEPT !.data = FALSE, !.detail = TRUE]
                          ELSE item
    /\ UNCHANGED <<docVersion, jsDocuments, derivations, lastGets, cacheEvents,
                   host, disposes, walkerVars, convertVars, restVars>>

\* the callback of host.dispose(): s => s.dispose()
RunDispose ==
    /\ runs("dispose", 0)
    /\ engine' = [engine EXCEPT !.disposeCalls = @ + 1]
    /\ UNCHANGED <<docVersion, jsDocuments, derivations, lastGets, cacheEvents,
                   host, calls, item, disposes, walkerVars, convertVars, restVars>>

\* dispose() of the mode: host.dispose() registers a callback on the
\* promise, jsDocuments.dispose() drops the cache
Dispose ==
    /\ eventLoopFree
    /\ disposes < MaxDisposes
    /\ disposes' = disposes + 1
    /\ queue' = Append(queue, <<"dispose", 0>>)
    /\ jsDocuments' = NoEntry
    /\ UNCHANGED <<docVersion, derivations, lastGets, cacheEvents, host, engine,
                   calls, item, walkerVars, convertVars, restVars>>

\* the editor's document is edited
DocumentChanged ==
    /\ eventLoopFree
    /\ docVersion < MaxVersion
    /\ docVersion' = docVersion + 1
    /\ cacheEvents' = [cacheEvents EXCEPT !.changed = TRUE]
    /\ UNCHANGED <<jsDocuments, derivations, lastGets, host, engine, queue, calls,
                   item, disposes, walkerVars, convertVars, restVars>>

\* the entry of the document leaves the cache
evict ==
    /\ jsDocuments' = NoEntry
    /\ cacheEvents' = [cacheEvents EXCEPT !.evicted = @ \/ jsDocuments.present]
    /\ UNCHANGED <<docVersion, derivations, lastGets, host, engine, queue, calls,
                   item, disposes, walkerVars, convertVars, restVars>>

\* onDocumentRemoved(document): jsDocuments.onDocumentRemoved(document)
OnDocumentRemoved == eventLoopFree /\ evict

\* the cleanup timer of the cache finds the entry older than its idle age
CleanupExpired == eventLoopFree /\ jsDocuments.present /\ evict

ModeNext ==
    \/ \E op \in Operations : StartCall(op)
    \/ LoadCompletes
    \/ \E c \in 1..Len(calls) : ContinueFormat(c)
    \/ \E c \in 1..Len(calls) : ContinueComplete(c)
    \/ \E c \in 1..Len(calls) : ContinueResolve(c)
    \/ RunDispose
    \/ Dispose
    \/ DocumentChanged
    \/ OnDocumentRemoved
    \/ CleanupExpired

ModeSpec == ModeInit /\ [][ModeNext]_vars

(* ------------------------------------------------- claims on the mode *)

\* C14: for one host the library is loaded and the language service created
\* exactly once, however many getLanguageService calls are made before and
\* after the load; every call is handed the same service
C14_EngineLoadedOnce ==
    /\ host.loads = 1
    /\ host.created = (IF host.promise = "fulfilled" THEN 1 ELSE 0)
    /\ \A c \in 1..Len(calls) : calls[c].stage # "awaiting" => calls[c].service = 1

\* two calls made while the library was loading have both been handed the service
C14_Witness ==
    \E c \in 1..Len(calls) :
        /\ c > 1 /\ calls[c].rapid
        /\ calls[c].stage = "done" /\ calls[c - 1].stage = "done"

\* C15: dispose() called twice on a mode has the engine's dispose invoked at
\* most once
C15_DisposeTwiceReleasesOnce == engine.disposeCalls <= 1

\* C16: a second doResolve on an item whose data the first one removed
\* completes without error
C16_ResolveTwiceCompletes ==
    \A c \in 1..Len(calls) : calls[c].op = "doResolve" => calls[c].stage # "failed"

\* the second of two successive format calls between which the document changed
secondFormat(c) ==
    /\ c > 1
    /\ calls[c - 1].op = "format" /\ calls[c].op = "format"
    /\ calls[c - 1].jsDocument.version < calls[c].jsDocument.version
    /\ calls[c].stage = "done" /\ ~calls[c].overtaken

\* C17: when format is called twice and the document changed between the
\* calls, the engine answers the second call from the second call's document
\* snapshot, also when the second call was made before the first completed
C17_SecondFormatUsesLatestSnapshot ==
    \A c \in 1..Len(calls) : secondFormat(c) => calls[c].against = calls[c].jsDocument

\* the second format call was made while the first was waiting for the service
C17_Witness == \E c \in 1..Len(calls) : secondFormat(c) /\ calls[c].rapid

\* no get returned a document derived from another version than the document's
neverStale ==
    \A i \in 1..Len(lastGets) : lastGets[i].model.doc.version = lastGets[i].version

\* C20 as stated: the cache never returns a document derived from another
\* version, and two gets without a version change return the same derived
\* document, the derivation function invoked once
C20_CacheNeverStaleNorRecomputes ==
    /\ neverStale
    /\ (Len(lastGets) = 2 /\ lastGets[1].version = lastGets[2].version)
          => (lastGets[2].model = lastGets[1].model /\ ~lastGets[2].recomputed)

\* C20 as amended: ... two gets without a version change and without the
\* entry leaving the cache between them return the same derived document
C20_CacheNeverStaleNorRecomputesUnlessEvicted ==
    /\ neverStale
    /\ (Len(lastGets) = 2 /\ lastGets[1].version = lastGets[2].version
           /\ ~lastGets[2].evicted)
          => (lastGets[2].model = lastGets[1].model /\ ~lastGets[2].recomputed)

\* a get after a version change, and then a second get of the same version
C20_Witness ==
    /\ Len(lastGets) = 2 /\ lastGets[2].version > 1
    /\ lastGets[1].version = lastGets[2].version
    /\ ~lastGets[2].evicted /\ ~lastGets[2].recomputed

\* C21: when an operation continues after awaiting getLanguageService and
\* issues its engine queries, the host's current document is the embedded
\* document this operation passed to getLanguageService, whatever operations
\* were started in between
C21_AnsweredFromOwnDocument ==
    [][\A c \in 1..Len(calls) :
          (calls[c].stage = "awaiting" /\ calls'[c].stage # "awaiting")
              => host.currentTextDocument = calls[c].jsDocument]_vars

\* C27: the load of the library is not started when the mode and its host
\* are created, only when getLanguageService is first called
C27_LoadStartsAtFirstRequest ==
    (docVersion >= 1 /\ calls = <<>>) => host.loads = 0

(* ======================================================================= *)
(* The conversions of the mode: convertRange, findDocumentSymbols          *)
(* ======================================================================= *)

\* longest document text
MaxTextLen == 3

\* an absent number (span.start, span.length: number | undefined)
Undefined == -1

\* a text is a sequence of characters; "LF" and "CR" are the line breaks
Characters == {"a", "LF", "CR"}

RECURSIVE TextsUpTo(_)
TextsUpTo(n) ==
    IF n = 0 THEN {<<>>}
    ELSE LET shorter == TextsUpTo(n - 1)
         IN shorter \cup {Append(t, ch) : t \in {u \in shorter : Len(u) = n - 1},
                                          ch \in Characters}

Texts == TextsUpTo(MaxTextLen)

Position(line, character) == [line |-> line, character |-> character]

\* TextDocument.getLineOffsets(): offset 0 and every offset after a line
\* break ("CR" "LF" is one break), in increasing order
isLineStart(t, o) ==
    \/ o = 0
    \/ /\ o >= 1 /\ o <= Len(t)
       /\ \/ t[o] = "LF"
          \/ t[o] = "CR" /\ ~(o < Len(t) /\ t[o + 1] = "LF")

RECURSIVE offsetsFrom(_, _)
offsetsFrom(t, o) ==
    IF o > Len(t) THEN <<>>
    ELSE (IF isLineStart(t, o) THEN <<o>> ELSE <<>>) \o offsetsFrom(t, o + 1)

getLineOffsets(t) == offsetsFrom(t, 0)

Min(a, b) == IF a < b THEN a ELSE b
Max(a, b) == IF a > b THEN a ELSE b

\* TextDocument.positionAt(offset): the offset is clamped to the text, the
\* line is the last one that starts at or before it (lines count from 0)
positionAt(t, offset) ==
    LET o == Max(Min(offset, Len(t)), 0)
        lineOffsets == getLineOffsets(t)
        line == CHOOSE l \in 1..Len(lineOffsets) :
                    /\ lineOffsets[l] <= o
                    /\ \A k \in 1..Len(lineOffsets) : lineOffsets[k] <= o => k <= l
    IN Position(line - 1, o - lineOffsets[line])

\* TextDocument.offsetAt(position)
offsetAt(t, position) ==
    LET lineOffsets == getLineOffsets(t)
    IN IF position.line >= Len(lineOffsets) THEN Len(t)
       ELSE IF position.line < 0 THEN 0
       ELSE LET lineOffset == lineOffsets[position.line + 1]
                nextLineOffset == IF position.line + 1 < Len(lineOffsets)
                                  THEN lineOffsets[position.line + 2]
                                  ELSE Len(t)
            IN Max(Min(lineOffset + position.character, nextLineOffset), lineOffset)

Range(start, end) == [start |-> start, end |-> end]

\* convertRange with the end of the span left out
convertRangeCollapsed(t, sp) ==
    IF sp.start = Undefined
    THEN Range(positionAt(t, 0), positionAt(t, 0))
    ELSE Range(positionAt(t, sp.start), positionAt(t, sp.start))

\* convertRange(document, span)
convertRange(t, sp) ==
    IF sp.start = Undefined
    THEN Range(positionAt(t, 0), positionAt(t, 0))
    ELSE Range(positionAt(t, sp.start),
               positionAt(t, sp.start + (IF sp.length = Undefined THEN 0 ELSE sp.length)))

\* strings are sequences of characters, so that + is \o
Digits == <<"0", "1", "2", "3", "4", "5", "6", "7", "8", "9">>

\* a number as + turns it into a string
RECURSIVE numberToString(_)
numberToString(n) ==
    IF n < 10 THEN <<Digits[n + 1]>>
    ELSE numberToString(n \div 10) \o <<Digits[(n % 10) + 1]>>

KindScript == <<"s", "c", "r", "i", "p", "t">>
KindFunction == <<"f", "u", "n", "c", "t", "i", "o", "n">>
KindVar == <<"v", "a", "r">>

NameFoo == <<"f", "o", "o">>
NameFoo1 == <<"f", "o", "o", "1">>
NameGlobal == <<"g">>

\* ts.NavigationBarItem: text, kind, spans[0], childItems
NavigationBarItem(name, kind, start, childItems) ==
    [text |-> name, kind |-> kind, span |-> [start |-> start, length |-> 1],
     childItems |-> childItems]

\* the text of the document the navigation items below belong to
SymbolText == <<"a", "LF", "a">>

\* items without children
LeafItems ==
    {NavigationBarItem(NameFoo, KindFunction, 0, <<>>),
     NavigationBarItem(NameFoo, KindFunction, 2, <<>>),
     NavigationBarItem(NameFoo1, KindVar, 1, <<>>)}

ChildLists == {<<>>} \cup {<<a>> : a \in LeafItems} \cup {<<a, b>> : a, b \in LeafItems}

TopItems ==
    {NavigationBarItem(h[1], h[2], h[3], ch) :
        h \in {<<NameGlobal, KindScript, 0>>, <<NameFoo, KindFunction, 0>>,
               <<NameFoo, KindFunction, 2>>, <<NameFoo, KindVar, 0>>},
        ch \in ChildLists}

\* what getNavigationBarItems answers
NavigationTrees == {<<>>} \cup {<<a>> : a \in TopItems} \cup {<<a, b>> : a, b \in TopItems}

\* convertSymbolKind(kind)
convertSymbolKind(kind) ==
    IF kind = KindVar THEN "Variable"
    ELSE IF kind = KindFunction THEN "Function"
    ELSE "Variable"

\* the signature with the start offset left out
signatureWithoutStart(it) == it.text \o it.kind

\* let sig = item.text + item.kind + item.spans[0].start
signature(it) == it.text \o it.kind \o numberToString(it.span.start)

NoContainer == <<>>

\* collectSymbols(item, containerLabel) on acc = [existing, result]
RECURSIVE collectSymbols(_, _, _, _), collectChildren(_, _, _, _)
collectSymbols(t, it, containerLabel, acc) ==
    LET sig == signature(it)
        add == it.kind # KindScript /\ sig \notin acc.existing
        symbol == [name |-> it.text, kind |-> convertSymbolKind(it.kind),
                   range |-> convertRange(t, it.span),
                   containerName |-> containerLabel]
        acc1 == IF add
                THEN [existing |-> acc.existing \cup {sig},
                      result |-> Append(acc.result, symbol)]
                ELSE acc
    IN collectChildren(t, it.childItems, IF add THEN it.text ELSE containerLabel, acc1)
collectChildren(t, children, containerLabel, acc) ==
    IF children = <<>> THEN acc
    ELSE collectChildren(t, Tail(children), containerLabel,
                         collectSymbols(t, Head(children), containerLabel, acc))

\* findDocumentSymbols after its await: items.forEach(item => collectSymbols(item))
findDocumentSymbols(t, navItems) ==
    collectChildren(t, navItems, NoContainer, [existing |-> {}, result |-> <<>>]).result

NoRange == [computed |-> FALSE, range |-> Range(Position(0, 0), Position(0, 0))]
NoSymbols == [computed |-> FALSE, result |-> <<>>]

ConvertInit ==
    /\ text \in Texts
    /\ items \in NavigationTrees
    /\ items # <<>> => text = SymbolText
    /\ span = [start |-> 0, length |-> 0]
    /\ range = NoRange
    /\ symbols = NoSymbols
    /\ WalkerIdle /\ ModeIdle /\ RestIdle

\* convertRange is applied to a span
ConvertRange ==
    /\ ~range.computed
    /\ \E st \in {Undefined} \cup 0..(MaxTextLen + 1),
          ln \in {Undefined} \cup 0..(MaxTextLen + 1) :
          /\ span' = [start |-> st, length |-> ln]
          /\ range' = [computed |-> TRUE, range |-> convertRange(text, span')]
    /\ UNCHANGED <<text, items, symbols, walkerVars, modeVars, restVars>>

\* findDocumentSymbols is applied to the navigation items
FindDocumentSymbols ==
    /\ ~symbols.computed
    /\ symbols' = [computed |-> TRUE, result |-> findDocumentSymbols(text, items)]
    /\ UNCHANGED <<text, items, span, range, walkerVars, modeVars, restVars>>

ConvertNext ==
    \/ ConvertRange
    \/ FindDocumentSymbols

ConvertSpec == ConvertInit /\ [][ConvertNext]_vars

(* ------------------------------------------ claims on the conversions *)

RECURSIVE allItems(_)
\* every item of a list of navigation items, the children included
allItems(list) ==
    IF list = <<>> THEN {}
    ELSE {Head(list)} \cup allItems(Head(list).childItems) \cup allItems(Tail(list))

\* the (name, kind, start offset) signatures of the non-script items
C18_Signatures ==
    {<<it.text, it.kind, it.span.start>> : it \in {i \in allItems(items) : i.kind # KindScript}}

\* C18: findDocumentSymbols returns exactly one symbol for each distinct
\* (name, kind, start offset) among the non-script items: repeated items are
\* merged, items of the same name and kind at different offsets are kept apart
C18_OneSymbolPerSignature ==
    symbols.computed =>
        /\ Len(symbols.result) = Cardinality(C18_Signatures)
        /\ \A sg \in C18_Signatures :
              \E i \in 1..Len(symbols.result) :
                  /\ symbols.result[i].name = sg[1]
                  /\ symbols.result[i].kind = convertSymbolKind(sg[2])
                  /\ offsetAt(text, symbols.result[i].range.start) = sg[3]

\* two functions named foo at different offsets, one of them reached twice
C18_Witness ==
    /\ symbols.computed
    /\ Cardinality(allItems(items)) >= 3
    /\ Len(symbols.result) < Cardinality(allItems(items))
    /\ \E i, j \in 1..Len(symbols.result) :
          /\ i # j
          /\ symbols.result[i].name = symbols.result[j].name
          /\ symbols.result[i].kind = symbols.result[j].kind

\* the span lies in the snapshot
spanOfSnapshot ==
    /\ span.start # Undefined /\ span.length # Undefined
    /\ span.start + span.length <= Len(text)

\* C19: a span of the snapshot converted to a range by convertRange and back
\* by offsetAt gives start and start + length again
C19_RangeRoundTrip ==
    (range.computed /\ spanOfSnapshot) =>
        /\ offsetAt(text, range.range.start) = span.start
        /\ offsetAt(text, range.range.end) = span.start + span.length

\* a span that crosses a line break
C19_Witness ==
    /\ range.computed /\ spanOfSnapshot /\ span.length > 0
    /\ range.range.start.line < range.range.end.line

(* ======================================================================= *)
(* format of the language mode                                             *)
(* ======================================================================= *)

\* the longest document format is called on
MaxFormatLen == 3

\* the characters of a document: a letter, a space, a line feed
FormatTexts == UNION {[1..n -> {"a", "SP", "LF"}] : n \in 0..MaxFormatLen}

\* isWhitespaceOnly(str): /^\s*$/.test(str)
isWhitespaceOnly(str) == \A i \in 1..Len(str) : str[i] \in {"SP", "TAB", "LF", "CR"}

\* String.prototype.substr(from, length)
substr(str, from, length) ==
    LET f == IF from < 0 THEN Max(Len(str) + from, 0) ELSE Min(from, Len(str))
    IN SubSeq(str, f + 1, Min(f + length, Len(str)))

\* repeat(value, count)
repeat(value, count) == [i \in 1..count |-> value]

\* computeInitialIndent(document, range, options)
computeInitialIndent(t, rng, options) ==
    LET lineStart == offsetAt(t, Position(rng.start.line, 0))
        tabSize == IF options.tabSize # 0 THEN options.tabSize ELSE 4
        stop == CHOOSE i \in lineStart..Len(t) :
                    /\ \A k \in (lineStart + 1)..i : t[k] \in {"SP", "TAB"}
                    /\ i < Len(t) => t[i + 1] \notin {"SP", "TAB"}
        nChars == Cardinality({k \in (lineStart + 1)..stop : t[k] = "SP"})
                  + tabSize * Cardinality({k \in (lineStart + 1)..stop : t[k] = "TAB"})
    IN nChars \div tabSize

\* generateIndent(level, options)
generateIndent(level, options) ==
    IF options.insertSpaces THEN repeat("SP", level * options.tabSize)
    ELSE repeat("TAB", level)

TextEdit(rng, newText) == [range |-> rng, newText |-> newText]

\* the edits format pushes for the engine's edits that lie in [start, end]
editsWithin(t, edits, start, end) ==
    LET kept == SelectSeq(edits, LAMBDA edit :
                    edit.span.start >= start
                    /\ edit.span.start + edit.span.length <= end)
    IN [i \in 1..Len(kept) |-> TextEdit(convertRange(t, kept[i].span), kept[i].newText)]

\* format with the last line never set apart
formatWholeRange(t, rng, options, edits) ==
    LET start == offsetAt(t, rng.start)
        end == offsetAt(t, rng.end)
    IN [start |-> start, end |-> end, result |-> editsWithin(t, edits, start, end)]

\* format(document, range, formatParams) after its await: the region handed
\* to getFormattingEditsForRange and, for the edits the engine answers with,
\* the edits returned
format(t, rng, options, edits) ==
    LET initialIndentLevel == computeInitialIndent(t, rng, options)
        start == offsetAt(t, rng.start)
        end == offsetAt(t, rng.end)
        lastLine == /\ rng.end.line > rng.start.line
                    /\ \/ rng.end.character = 0
                       \/ isWhitespaceOnly(substr(t, end - rng.end.character,
                                                  rng.end.character))
        end2 == IF lastLine THEN end - rng.end.character ELSE end
        lastLineRange == Range(Position(rng.end.line, 0), rng.end)
    IN [start |-> start, end |-> end2,
        result |-> editsWithin(t, edits, start, end2)
                   \o (IF lastLine
                       THEN <<TextEdit(lastLineRange,
                                       generateIndent(initialIndentLevel, options))>>
                       ELSE <<>>)]

\* the text changes getFormattingEditsForRange may answer with
TextChanges(t) ==
    {[span |-> [start |-> st, length |-> ln], newText |-> <<"a">>] :
        st \in 0..Len(t), ln \in 0..1}

\* format has been called with a range of the document and is at its await
FormatInit ==
    /\ \E t \in FormatTexts, options \in [tabSize : 1..2, insertSpaces : BOOLEAN] :
          \E from \in 0..Len(t), to \in 0..Len(t) :
             /\ from <= to
             /\ formatting = [text |-> t, options |-> options, returned |-> FALSE,
                              range |-> Range(positionAt(t, from), positionAt(t, to)),
                              edits |-> <<>>, start |-> 0, end |-> 0, result |-> <<>>]
    /\ trust = <<>> /\ widgets = <<>> /\ listing = <<>>
    /\ WalkerIdle /\ ModeIdle /\ ConvertIdle

\* the engine answers getFormattingEditsForRange and format returns
FormatReturns ==
    /\ ~formatting.returned
    /\ \E edits \in UNION {[1..n -> TextChanges(formatting.text)] : n \in 0..2} :
          \E f \in {format(formatting.text, formatting.range, formatting.options, edits)} :
             formatting' = [formatting EXCEPT !.returned = TRUE, !.edits = edits,
                               !.start = f.start, !.end = f.end, !.result = f.result]
    /\ UNCHANGED <<walkerVars, modeVars, convertVars, trust, widgets, listing>>

FormatNext == FormatReturns

FormatSpec == FormatInit /\ [][FormatNext]_vars

(* --------------------------------------------------- claims on format *)

\* the range spans more than one line and the text of its last line before
\* range.end is whitespace only
lastLineBlank ==
    LET t == formatting.text
        rng == formatting.range
    IN /\ rng.end.line > rng.start.line
       /\ \A k \in (offsetAt(t, Position(rng.end.line, 0)) + 1)..offsetAt(t, rng.end) :
             t[k] \in {"SP", "TAB"}

\* C25: when the range spans more than one line and its last line is
\* whitespace only before range.end, the region handed to the engine ends at
\* the start of that line, no engine edit outside the region is returned, and
\* exactly one more edit is returned: (end.line, 0)..range.end replaced with
\* the indent string of the starting line's indent level
C25_BlankLastLineReplaced ==
    (formatting # <<>> /\ formatting.returned /\ lastLineBlank) =>
        LET t == formatting.text
            rng == formatting.range
            result == formatting.result
            lineStart == offsetAt(t, Position(rng.end.line, 0))
            inside == SelectSeq(formatting.edits, LAMBDA e :
                          e.span.start >= formatting.start
                          /\ e.span.start + e.span.length <= lineStart)
        IN /\ formatting.start = offsetAt(t, rng.start)
           /\ formatting.end = lineStart
           /\ Len(result) = Len(inside) + 1
           /\ \A i \in 1..Len(inside) :
                 /\ offsetAt(t, result[i].range.start) = inside[i].span.start
                 /\ offsetAt(t, result[i].range.end)
                        = inside[i].span.start + inside[i].span.length
                 /\ result[i].newText = inside[i].newText
           /\ result[Len(result)] =
                 TextEdit(Range(Position(rng.end.line, 0), rng.end),
                          generateIndent(computeInitialIndent(t, rng, formatting.options),
                                         formatting.options))

\* format returned for a range whose last line holds a space before
\* range.end: one engine edit was kept, one dropped, the indent is not empty
C25_Witness ==
    /\ formatting # <<>> /\ formatting.returned /\ lastLineBlank
    /\ formatting.range.end.character > 0
    /\ Len(formatting.result) = 2 /\ Len(formatting.edits) = 2
    /\ formatting.result[2].newText # <<>>

(* ======================================================================= *)
(* WorkspaceTrustRequestHandler                                            *)
(* ======================================================================= *)

\* number of workspace trust requests initiated
MaxRequests == 2

\* the types of the buttons of the modal dialog
ButtonTypes == {"ContinueWithTrust", "ContinueWithoutTrust", "Manage", "Cancel"}

\* completeRequest / cancelRequest is called from the dialog shown for request r
requestResolved(tr, r, call) == [tr EXCEPT !.requests[r][call] = @ + 1]

\* toggleRequestBadge(visible) on behalf of request r: the badge, and the
\* introduction dialog when it is still to be shown
toggleRequestBadge(tr, visible, r) ==
    IF visible
    THEN [tr EXCEPT !.badge = TRUE,
                    !.dialogs = IF ~tr.doNotShowAgain /\ tr.shouldShowIntroduction
                                THEN Append(@, <<"introduction", r>>)
                                ELSE @]
    ELSE [tr EXCEPT !.badge = FALSE]

\* the handler has been constructed: registerListeners has run
TrustInit ==
    /\ \E stored \in BOOLEAN :
          trust = [shouldShowIntroduction |-> TRUE, doNotShowAgain |-> stored,
                   badge |-> FALSE, requests |-> <<>>, dialogs |-> <<>>]
    /\ formatting = <<>> /\ widgets = <<>> /\ listing = <<>>
    /\ WalkerIdle /\ ModeIdle /\ ConvertIdle

\* listener of onDidInitiateWorkspaceTrustRequest, up to its await
InitiateRequest(modal) ==
    /\ Len(trust.requests) < MaxRequests
    /\ LET r == Len(trust.requests) + 1
           tr == toggleRequestBadge(
                     [trust EXCEPT !.requests =
                         Append(@, [modal |-> modal, completeRequest |-> 0,
                                    cancelRequest |-> 0])],
                     TRUE, r)
       IN trust' = IF modal THEN [tr EXCEPT !.dialogs = Append(@, <<"modal", r>>)]
                   ELSE tr
    /\ UNCHANGED <<walkerVars, modeVars, convertVars, formatting, widgets, listing>>

\* the introduction dialog closes with a choice and its checkbox
IntroductionResult(choice, checkboxChecked) ==
    /\ trust.dialogs # <<>> /\ Head(trust.dialogs)[1] = "introduction"
    /\ LET r == Head(trust.dialogs)[2]
           tr == requestResolved([trust EXCEPT !.dialogs = Tail(@)], r,
                                 IF choice = 0 THEN "cancelRequest" ELSE "completeRequest")
       IN trust' = [tr EXCEPT !.doNotShowAgain = @ \/ checkboxChecked]
    /\ UNCHANGED <<walkerVars, modeVars, convertVars, formatting, widgets, listing>>

\* the modal dialog closes with one of its buttons; completeRequest(true) has
\* the listener of onDidCompleteWorkspaceTrustRequest hide the badge
ModalResult(type) ==
    /\ trust.dialogs # <<>> /\ Head(trust.dialogs)[1] = "modal"
    /\ LET r == Head(trust.dialogs)[2]
           tr == requestResolved([trust EXCEPT !.dialogs = Tail(@)], r,
                                 IF type \in {"ContinueWithTrust", "ContinueWithoutTrust"}
                                 THEN "completeRequest" ELSE "cancelRequest")
       IN trust' = IF type = "ContinueWithTrust" THEN toggleRequestBadge(tr, FALSE, r)
                   ELSE tr
    /\ UNCHANGED <<walkerVars, modeVars, convertVars, formatting, widgets, listing>>

\* setTimeout(() => { this.shouldShowIntroduction = false; }, 5000)
IntroductionTimeout ==
    /\ trust.shouldShowIntroduction
    /\ trust' = [trust EXCEPT !.shouldShowIntroduction = FALSE]
    /\ UNCHANGED <<walkerVars, modeVars, convertVars, formatting, widgets, listing>>

\* listener of onDidChangeTrust, called with trusted = true
DidChangeTrust ==
    /\ trust.badge
    /\ trust' = toggleRequestBadge(trust, FALSE, 0)
    /\ UNCHANGED <<walkerVars, modeVars, convertVars, formatting, widgets, listing>>

TrustNext ==
    \/ \E modal \in BOOLEAN : InitiateRequest(modal)
    \/ \E choice \in 0..1, checkboxChecked \in BOOLEAN :
          IntroductionResult(choice, checkboxChecked)
    \/ \E type \in ButtonTypes : ModalResult(type)
    \/ IntroductionTimeout
    \/ DidChangeTrust

TrustSpec == TrustInit /\ [][TrustNext]_vars

\* C28: for each workspace trust request that is initiated the handler
\* calls completeRequest or cancelRequest at most once in total, also for a
\* modal request that arrives while the introduction dialog is to be shown
C28_RequestResolvedOnce ==
    \A r \in 1..Len(trust.requests) :
        trust.requests[r].completeRequest + trust.requests[r].cancelRequest <= 1

(* ======================================================================= *)
(* TerminalWidgetManager                                                   *)
(* ======================================================================= *)

\* number of attachWidget calls
MaxAttaches == 3
\* number of dispose() calls on one returned handle
MaxHandleDisposes == 2

\* the widgets handed to attachWidget: w1 and w2 share an id
Widgets == {"w1", "w2", "w3"}
WidgetId == [w \in Widgets |-> IF w = "w3" THEN "b" ELSE "a"]
NoWidget == "undefined"

\* dispose of a returned handle with the comparison against the current
\* widget left out
disposeHandleUnchecked(ws, widget) ==
    [ws EXCEPT !.attached[WidgetId[widget]] = NoWidget,
               !.live[widget] = FALSE]

\* dispose of the handle attachWidget returned for widget
disposeHandle(ws, widget) ==
    LET current == ws.attached[WidgetId[widget]]
    IN IF current = widget
       THEN [ws EXCEPT !.attached[WidgetId[widget]] = NoWidget,
                       !.live[widget] = FALSE]
       ELSE ws

\* attachWidget(widget) with a container: the widget attached under the id
\* is disposed, the new one attached and registered, a handle returned
attachWidget(ws, widget) ==
    LET current == ws.attached[WidgetId[widget]]
        disposed == IF current # NoWidget
                    THEN [ws EXCEPT !.live[current] = FALSE]
                    ELSE ws
    IN [disposed EXCEPT !.live[widget] = TRUE,
                        !.attached[WidgetId[widget]] = widget,
                        !.handles = Append(@, [widget |-> widget, disposes |-> 0,
                                               stale |-> FALSE])]

\* new TerminalWidgetManager(hoverService)
WidgetInit ==
    /\ widgets = [container |-> FALSE,
                  attached |-> [id \in {"a", "b"} |-> NoWidget],
                  live |-> [w \in Widgets |-> FALSE],
                  handles |-> <<>>,
                  calls |-> 0]
    /\ formatting = <<>> /\ trust = <<>> /\ listing = <<>>
    /\ WalkerIdle /\ ModeIdle /\ ConvertIdle

\* attachToElement(terminalWrapper)
AttachToElement ==
    /\ ~widgets.container
    /\ widgets' = [widgets EXCEPT !.container = TRUE]
    /\ UNCHANGED <<walkerVars, modeVars, convertVars, formatting, trust, listing>>

\* attachWidget(widget): undefined is returned while there is no container
AttachWidget(widget) ==
    /\ widgets.calls < MaxAttaches
    /\ widgets' = [(IF widgets.container THEN attachWidget(widgets, widget) ELSE widgets)
                      EXCEPT !.calls = @ + 1]
    /\ UNCHANGED <<walkerVars, modeVars, convertVars, formatting, trust, listing>>

\* dispose() is called on the h-th handle returned (stale records that
\* another widget was registered under the id at that time)
DisposeHandle(h) ==
    /\ h \in 1..Len(widgets.handles)
    /\ widgets.handles[h].disposes < MaxHandleDisposes
    /\ widgets' = [disposeHandle(widgets, widgets.handles[h].widget)
                      EXCEPT !.handles[h].disposes = @ + 1,
                             !.handles[h].stale =
                                 @ \/ widgets.attached[WidgetId[widgets.handles[h].widget]]
                                         \notin {NoWidget, widgets.handles[h].widget}]
    /\ UNCHANGED <<walkerVars, modeVars, convertVars, formatting, trust, listing>>

WidgetNext ==
    \/ AttachToElement
    \/ \E widget \in Widgets : AttachWidget(widget)
    \/ \E h \in 1..Len(widgets.handles) : DisposeHandle(h)

WidgetSpec == WidgetInit /\ [][WidgetNext]_vars

\* C29: at most one widget is registered per id; a widget is attached and
\* not disposed exactly while it is the one registered under its id: attaching
\* under an id in use disposes the widget attached before, and disposing the
\* handle of a replaced widget neither unregisters nor disposes the replacement
C29_OneLiveWidgetPerId ==
    /\ \A w \in Widgets : widgets.live[w] <=> widgets.attached[WidgetId[w]] = w
    /\ \A id \in {"a", "b"} :
          Cardinality({w \in Widgets : WidgetId[w] = id /\ widgets.live[w]}) <= 1

\* the handle of a widget was disposed after another widget had replaced it
\* under its id; the replacement is still registered
C29_Witness ==
    \E h \in 1..Len(widgets.handles) :
        /\ widgets.handles[h].stale
        /\ \E k \in (h + 1)..Len(widgets.handles) :
              /\ widgets.handles[k].widget # widgets.handles[h].widget
              /\ WidgetId[widgets.handles[k].widget] = WidgetId[widgets.handles[h].widget]
              /\ widgets.handles[k].disposes = 0
              /\ widgets.live[widgets.handles[k].widget]

(* ======================================================================= *)
(* listProcesses                                                           *)
(* ======================================================================= *)

\* the rootPid listProcesses is called with
RootPid == 1

\* the processes the listing command prints, one line each: 2 and 3 are
\* children of the root, 4 is a child of 3, 5 belongs to another tree
ProcessTable ==
    {[pid |-> 1, ppid |-> 0], [pid |-> 2, ppid |-> 1], [pid |-> 3, ppid |-> 1],
     [pid |-> 4, ppid |-> 3], [pid |-> 5, ppid |-> 7]}

\* the outputs of the command: the lines in any order
Listings ==
    {l \in [1..Cardinality(ProcessTable) -> ProcessTable] :
        \A i, j \in 1..Cardinality(ProcessTable) : l[i] = l[j] => i = j}

\* addToTree(pid, ppid, cmd) on [map, rootItem]: map holds the children of
\* every item
addToTree(tree, pid, ppid) ==
    LET hasParent == ppid \in DOMAIN tree.map
    IN IF pid = RootPid \/ hasParent
       THEN LET added == [q \in DOMAIN tree.map \cup {pid} |->
                             IF q = pid THEN <<>> ELSE tree.map[q]]
                linked == IF hasParent
                          THEN [added EXCEPT ![ppid] =
                                   SortSeq(Append(tree.map[ppid], pid),
                                           LAMBDA a, b : a < b)]
                          ELSE added
            IN [map |-> linked,
                rootItem |-> IF pid = RootPid THEN pid ELSE tree.rootItem]
       ELSE tree

\* listProcesses(rootPid): the command has printed its output
ListingInit ==
    /\ \E lines \in Listings :
          listing = [lines |-> lines, next |-> 1, resolved |-> FALSE,
                     tree |-> [map |-> [q \in {} |-> <<>>], rootItem |-> 0]]
    /\ formatting = <<>> /\ trust = <<>> /\ widgets = <<>>
    /\ WalkerIdle /\ ModeIdle /\ ConvertIdle

\* one turn of `for (const line of lines)`
ReadLine ==
    /\ listing.next <= Len(listing.lines)
    /\ listing' = [listing EXCEPT
                      !.next = @ + 1,
                      !.tree = addToTree(@, listing.lines[listing.next].pid,
                                         listing.lines[listing.next].ppid)]
    /\ UNCHANGED <<walkerVars, modeVars, convertVars, formatting, trust, widgets>>

\* resolve(rootItem)
ResolveRoot ==
    /\ listing.next > Len(listing.lines) /\ ~listing.resolved
    /\ listing' = [listing EXCEPT !.resolved = TRUE]
    /\ UNCHANGED <<walkerVars, modeVars, convertVars, formatting, trust, widgets>>

ListingNext == ReadLine \/ ResolveRoot

ListingSpec == ListingInit /\ [][ListingNext]_vars

\* the listed processes within n parent links of the root
RECURSIVE descendantsWithin(_)
descendantsWithin(n) ==
    IF n = 0 THEN {RootPid}
    ELSE LET near == descendantsWithin(n - 1)
         IN near \cup {p.pid : p \in {q \in ProcessTable : q.ppid \in near}}

\* the pids of the tree handed to resolve
RECURSIVE treePids(_, _)
treePids(tree, pid) ==
    {pid} \cup UNION {treePids(tree, tree.map[pid][i]) : i \in 1..Len(tree.map[pid])}

\* C30: the tree listProcesses resolves holds every listed process that is
\* a transitive descendant of rootPid, in whatever order the lines were
\* listed, and the children of every node are in ascending pid order
C30_TreeHoldsAllDescendants ==
    (listing # <<>> /\ listing.resolved) =>
        /\ listing.tree.rootItem = RootPid
        /\ descendantsWithin(Cardinality(ProcessTable)) \ {RootPid}
              \subseteq treePids(listing.tree, RootPid)
        /\ \A q \in DOMAIN listing.tree.map :
              \A i, j \in 1..Len(listing.tree.map[q]) :
                  i < j => listing.tree.map[q][i] < listing.tree.map[q][j]

====
